---- MODULE Spec2Model ----
(***************************************************************************)
(* Model of keystore/keystore_attestation_id.cpp: the DER encoder of the   *)
(* attestation application id (build_attestation_application_id) and the   *)
(* gatherer (gather_attestation_application_id) with its shared provider   *)
(* handle (gService, get_service, reset_service).                          *)
(*                                                                         *)
(* Representation.  Bytes are 0..255.  A package name is a String16: a     *)
(* sequence of UTF-16 code units, possibly empty.  A versionCode is the    *)
(* 64-bit value as 8 big-endian bytes (the bits are the same before and    *)
(* after static_cast<uint64_t>).  A signature is a sequence of bytes.      *)
(***************************************************************************)
EXTENDS Integers, Sequences, FiniteSets, TLC

\* ------------------------------------------------------------------------
\* Program constants
\* ------------------------------------------------------------------------
kMaxAttempts == 3
AAID_PKG_INFO_OVERHEAD == 15
AAID_SIGNATURE_SIZE == 34
AAID_GENERAL_OVERHEAD == 16
KEY_ATTESTATION_APPLICATION_ID_MAX_SIZE == 1024
SHA256_DIGEST_LENGTH == 32
AID_ROOT == 0
AID_SYSTEM == 1000

\* "AndroidSystem" as code units
kAttestationSystemPackageName ==
    <<65, 110, 100, 114, 111, 105, 100, 83, 121, 115, 116, 101, 109>>

\* !packageName: packageName is a String16, which converts to its
\* const char16_t*; that pointer is never null
NotPackageName(s16) == FALSE

\* ------------------------------------------------------------------------
\* String16 -> String8 -> c_str() -> std::string
\* ------------------------------------------------------------------------
IsHighSurrogate(w) == w >= 55296 /\ w <= 56319
IsLowSurrogate(w) == w >= 56320 /\ w <= 57343

\* utf32_codepoint_to_utf8: a surrogate code point has no encoding
Utf8OfCodePoint(c) ==
    IF c < 128 THEN <<c>>
    ELSE IF c < 2048 THEN <<192 + (c \div 64), 128 + (c % 64)>>
    ELSE IF c < 65536
         THEN IF IsHighSurrogate(c) \/ IsLowSurrogate(c) THEN <<>>
              ELSE <<224 + (c \div 4096), 128 + ((c \div 64) % 64), 128 + (c % 64)>>
    ELSE <<240 + (c \div 262144), 128 + ((c \div 4096) % 64),
           128 + ((c \div 64) % 64), 128 + (c % 64)>>

\* the bytes code unit i contributes: a high surrogate followed by a low one
\* yields the pair's code point, and the low one then yields nothing
Utf8OfUnit(s16, i) ==
    IF IsHighSurrogate(s16[i]) /\ i < Len(s16) /\ IsLowSurrogate(s16[i + 1])
    THEN Utf8OfCodePoint((s16[i] - 55296) * 1024 + (s16[i + 1] - 56320) + 65536)
    ELSE IF IsLowSurrogate(s16[i]) /\ i > 1 /\ IsHighSurrogate(s16[i - 1])
    THEN <<>>
    ELSE Utf8OfCodePoint(s16[i])

RECURSIVE String8Range(_, _, _)
\* utf16_to_utf8 over the code units lo..hi (split in halves)
String8Range(s16, lo, hi) ==
    IF lo > hi THEN <<>>
    ELSE IF lo = hi THEN Utf8OfUnit(s16, lo)
    ELSE LET mid == (lo + hi) \div 2
         IN  String8Range(s16, lo, mid) \o String8Range(s16, mid + 1, hi)

\* "com.android.<e acute>": 13 code units, 14 bytes
ShortName == <<99, 111, 109, 46, 97, 110, 100, 114, 111, 105, 100, 46, 233>>
RepeatName(n, c) == [i \in 1..n |-> c]

\* the names the model draws; their conversions are computed once
ModelNames ==
    { <<>>, kAttestationSystemPackageName, ShortName, RepeatName(200, 98),
      RepeatName(256, 100), RepeatName(321, 99), RepeatName(1000, 101),
      RepeatName(993, 102), RepeatName(994, 103) }
String8Table == [s16 \in ModelNames |-> String8Range(s16, 1, Len(s16))]

\* String8(String16)
String8(s16) ==
    IF s16 \in ModelNames THEN String8Table[s16]
    ELSE String8Range(s16, 1, Len(s16))

\* std::string(const char*): the bytes before the first NUL
c_str(s8) ==
    IF \E i \in 1..Len(s8) : s8[i] = 0
    THEN SubSeq(s8, 1, (CHOOSE i \in 1..Len(s8) :
                           s8[i] = 0 /\ \A j \in 1..(i - 1) : s8[j] # 0) - 1)
    ELSE s8

\* ------------------------------------------------------------------------
\* signature2SHA256.  SHA256() is computed as FIPS 180-4 defines it.  A 32-bit
\* word is a pair <<high 16 bits, low 16 bits>>.
\* ------------------------------------------------------------------------
RECURSIVE Xor16(_, _)
Xor16(a, b) ==
    IF a = 0 THEN b
    ELSE IF b = 0 THEN a
    ELSE ((a + b) % 2) + 2 * Xor16(a \div 2, b \div 2)

RECURSIVE And16(_, _)
And16(a, b) ==
    IF a = 0 \/ b = 0 THEN 0
    ELSE ((a % 2) * (b % 2)) + 2 * And16(a \div 2, b \div 2)

WordXor(x, y) == <<Xor16(x[1], y[1]), Xor16(x[2], y[2])>>
WordAnd(x, y) == <<And16(x[1], y[1]), And16(x[2], y[2])>>
WordNot(x) == <<65535 - x[1], 65535 - x[2]>>

\* addition modulo 2^32
WordAdd(x, y) ==
    LET lo == x[2] + y[2]
    IN  <<(x[1] + y[1] + (lo \div 65536)) % 65536, lo % 65536>>

\* rotate right by n, 0 <= n < 32
RotR(x, n) ==
    LET y == IF n >= 16 THEN <<x[2], x[1]>> ELSE x
        m == IF n >= 16 THEN n - 16 ELSE n
    IN  <<(y[1] \div 2^m) + (y[2] % 2^m) * 2^(16 - m),
          (y[2] \div 2^m) + (y[1] % 2^m) * 2^(16 - m)>>

\* shift right by n, 0 <= n < 16
ShR(x, n) == <<x[1] \div 2^n, (x[2] \div 2^n) + (x[1] % 2^n) * 2^(16 - n)>>

Ch(x, y, z) == WordXor(WordAnd(x, y), WordAnd(WordNot(x), z))
Maj(x, y, z) == WordXor(WordXor(WordAnd(x, y), WordAnd(x, z)), WordAnd(y, z))
BigSigma0(x) == WordXor(WordXor(RotR(x, 2), RotR(x, 13)), RotR(x, 22))
BigSigma1(x) == WordXor(WordXor(RotR(x, 6), RotR(x, 11)), RotR(x, 25))
SmallSigma0(x) == WordXor(WordXor(RotR(x, 7), RotR(x, 18)), ShR(x, 3))
SmallSigma1(x) == WordXor(WordXor(RotR(x, 17), RotR(x, 19)), ShR(x, 10))

\* the round constants and the initial hash value
SHA256_K ==
    <<
       <<17034, 12184>>, <<28983, 17553>>, <<46528, 64463>>, <<59829, 56229>>,
       <<14678, 49755>>, <<23025, 4593>>, <<37439, 33444>>, <<43804, 24277>>,
       <<55303, 43672>>, <<4739, 23297>>, <<9265, 34238>>, <<21772, 32195>>,
       <<29374, 23924>>, <<32990, 45566>>, <<39900, 1703>>, <<49563, 61812>>,
       <<58523, 27073>>, <<61374, 18310>>, <<4033, 40390>>, <<9228, 41420>>,
       <<11753, 11375>>, <<19060, 33962>>, <<23728, 43484>>, <<30457, 35034>>,
       <<38974, 20818>>, <<43057, 50797>>, <<45059, 10184>>, <<48985, 32711>>,
       <<50912, 3059>>, <<54695, 37191>>, <<1738, 25425>>, <<5161, 10599>>,
       <<10167, 2693>>, <<11803, 8504>>, <<19756, 28156>>, <<21304, 3347>>,
       <<25866, 29524>>, <<30314, 2747>>, <<33218, 51502>>, <<37490, 11397>>,
       <<41663, 59553>>, <<43034, 26187>>, <<49739, 35696>>, <<51052, 20899>>,
       <<53650, 59417>>, <<54937, 1572>>, <<62478, 13701>>, <<4202, 41072>>,
       <<6564, 49430>>, <<7735, 27656>>, <<10056, 30540>>, <<13488, 48309>>,
       <<14620, 3251>>, <<20184, 43594>>, <<23452, 51791>>, <<26670, 28659>>,
       <<29839, 33518>>, <<30885, 25455>>, <<33992, 30740>>, <<36039, 520>>,
       <<37054, 65530>>, <<42064, 27883>>, <<48889, 41975>>, <<50801, 30962>>
    >>

SHA256_H0 ==
    <<
       <<27145, 58983>>, <<47975, 44677>>, <<15470, 62322>>, <<42319, 62778>>,
       <<20750, 21119>>, <<39685, 26764>>, <<8067, 55723>>, <<23520, 52505>>
    >>

\* the message, 0x80, zeros up to 56 modulo 64, and the length in bits as a
\* 64-bit big-endian number: 8 * n, written from n so that no intermediate
\* value exceeds n (high == n \div 2^29 is the upper 32 bits)
SHA256Pad(data) ==
    LET n == Len(data)
        zeros == (119 - (n % 64)) % 64
        high == n \div 536870912
    IN  data \o <<128>> \o [i \in 1..zeros |-> 0]
        \o <<(high \div 16777216) % 256, (high \div 65536) % 256,
             (high \div 256) % 256, high % 256,
             (n \div 2097152) % 256, (n \div 8192) % 256,
             (n \div 32) % 256, (n % 32) * 8>>

\* the 16 big-endian words of block k
BlockWords(padded, k) ==
    [i \in 1..16 |->
        LET o == 64 * (k - 1) + 4 * (i - 1)
        IN  <<padded[o + 1] * 256 + padded[o + 2],
              padded[o + 3] * 256 + padded[o + 4]>>]

RECURSIVE MessageSchedule(_)
\* W_t for t = 17..64
MessageSchedule(w) ==
    IF Len(w) = 64 THEN w
    ELSE LET t == Len(w) + 1
         IN  MessageSchedule(Append(w,
                 WordAdd(WordAdd(SmallSigma1(w[t - 2]), w[t - 7]),
                         WordAdd(SmallSigma0(w[t - 15]), w[t - 16]))))

\* one round: the working variables a..h after round t
Round(s, w, t) ==
    LET t1 == WordAdd(WordAdd(WordAdd(s[8], BigSigma1(s[5])),
                              WordAdd(Ch(s[5], s[6], s[7]), SHA256_K[t])),
                      w[t])
        t2 == WordAdd(BigSigma0(s[1]), Maj(s[1], s[2], s[3]))
    IN  <<WordAdd(t1, t2), s[1], s[2], s[3], WordAdd(s[4], t1), s[5], s[6], s[7]>>

RECURSIVE Rounds(_, _)
\* the 64 rounds; done holds the working variables before the first round
\* and after each round made so far
Rounds(done, w) ==
    LET t == Len(done)
    IN  IF t > 64 THEN done[t]
        ELSE Rounds(Append(done, Round(done[t], w, t)), w)

RECURSIVE SHA256Blocks(_, _, _)
SHA256Blocks(h, padded, k) ==
    IF 64 * (k - 1) >= Len(padded) THEN h
    ELSE LET s == Rounds(<<h>>, MessageSchedule(BlockWords(padded, k)))
         IN  SHA256Blocks([i \in 1..8 |-> WordAdd(h[i], s[i])], padded, k + 1)

\* SHA256(data, len, out): the digest as bytes
SHA256(data) ==
    LET h == SHA256Blocks(SHA256_H0, SHA256Pad(data), 1)
    IN  [i \in 1..32 |->
            LET w == h[((i - 1) \div 4) + 1]
                r == (i - 1) % 4
            IN  IF r = 0 THEN w[1] \div 256
                ELSE IF r = 1 THEN w[1] % 256
                ELSE IF r = 2 THEN w[2] \div 256
                ELSE w[2] % 256]

\* the signatures the model draws; their digests are computed once
ModelSignatures == { <<48, 130, 1, 10>>, <<48, 3, 2, 1, 0>>, <<48, 1, 7>> }
SHA256Table == [sig \in ModelSignatures |-> SHA256(sig)]

\* digest_buffer(SHA256_DIGEST_LENGTH) filled by SHA256(sig.data)
signature2SHA256(sig) ==
    SubSeq(IF sig \in ModelSignatures THEN SHA256Table[sig] ELSE SHA256(sig),
           1, SHA256_DIGEST_LENGTH)

\* ------------------------------------------------------------------------
\* DER (i2d_*) as the crypto library emits it
\* ------------------------------------------------------------------------
\* definite length, minimal form
DerLength(n) ==
    IF n < 128 THEN <<n>>
    ELSE IF n < 256 THEN <<129, n>>
    ELSE <<130, n \div 256, n % 256>>

DerTLV(tag, content) == <<tag>> \o DerLength(Len(content)) \o content

RECURSIVE StripLeadingZeros(_)
StripLeadingZeros(bs) ==
    IF bs = <<>> THEN <<>>
    ELSE IF bs[1] = 0 THEN StripLeadingZeros(Tail(bs))
    ELSE bs

\* BN_set_u64 + BN_to_ASN1_INTEGER + i2d: content octets of the INTEGER
Asn1IntegerContent(u64) ==
    LET mag == StripLeadingZeros(u64)
    IN  IF mag = <<>> THEN <<0>>
        ELSE IF mag[1] >= 128 THEN <<0>> \o mag
        ELSE mag

\* memcmp order of two encodings, the shorter first when one is a prefix
DerLessEq(a, b) ==
    LET n == IF Len(a) < Len(b) THEN Len(a) ELSE Len(b)
    IN  IF \E i \in 1..n : a[i] # b[i]
        THEN LET d == CHOOSE i \in 1..n :
                          a[i] # b[i] /\ \A j \in 1..(i - 1) : a[j] = b[j]
             IN  a[d] < b[d]
        ELSE Len(a) <= Len(b)

RECURSIVE DerInsert(_, _)
DerInsert(sorted, e) ==
    IF sorted = <<>> THEN <<e>>
    ELSE IF DerLessEq(e, sorted[1]) THEN <<e>> \o sorted
    ELSE <<sorted[1]>> \o DerInsert(Tail(sorted), e)

RECURSIVE DerSort(_)
DerSort(items) ==
    IF items = <<>> THEN <<>>
    ELSE DerInsert(DerSort(Tail(items)), items[1])

RECURSIVE Concat(_)
Concat(items) ==
    IF items = <<>> THEN <<>> ELSE items[1] \o Concat(Tail(items))

\* ASN1_SET_OF: the members' encodings in DER order
DerSetOf(encodings) == DerTLV(49, Concat(DerSort(encodings)))

\* ASN1_SEQUENCE(KM_ATTESTATION_PACKAGE_INFO)
i2d_KM_ATTESTATION_PACKAGE_INFO(info) ==
    DerTLV(48, DerTLV(4, info.package_name) \o DerTLV(2, info.version))

\* ASN1_SEQUENCE(KM_ATTESTATION_APPLICATION_ID)
i2d_KM_ATTESTATION_APPLICATION_ID(aid) ==
    DerTLV(48,
        DerSetOf([i \in 1..Len(aid.package_infos) |->
                     i2d_KM_ATTESTATION_PACKAGE_INFO(aid.package_infos[i])])
        \o DerSetOf([i \in 1..Len(aid.signature_digests) |->
                        DerTLV(4, aid.signature_digests[i])]))

\* ------------------------------------------------------------------------
\* build_attestation_package_info
\* ------------------------------------------------------------------------
build_attestation_package_info(pinfo) ==
    IF NotPackageName(pinfo.packageName)
    THEN [rc |-> "BAD_VALUE", info |-> <<>>]
    ELSE [rc |-> "NO_ERROR",
          info |-> [package_name |-> c_str(String8(pinfo.packageName)),
                    version |-> Asn1IntegerContent(pinfo.versionCode)]]

\* ------------------------------------------------------------------------
\* build_attestation_application_id
\* ------------------------------------------------------------------------
\* packageInfos.begin() == packageInfos.end()
NoPackageInfos(key_attestation_id) == key_attestation_id.packageInfos = <<>>

\* a plausible slip: >= for >
OverBudgetOffByOne(estimated_encoded_size) ==
    estimated_encoded_size >= KEY_ATTESTATION_APPLICATION_ID_MAX_SIZE

\* the loop's exit test on the running estimate
OverBudget(estimated_encoded_size) ==
    estimated_encoded_size > KEY_ATTESTATION_APPLICATION_ID_MAX_SIZE

\* the estimate after counting one more package
AddPackageEstimate(estimated_encoded_size, package_name) ==
    estimated_encoded_size + AAID_PKG_INFO_OVERHEAD + Len(package_name)

RECURSIVE PackageLoopContinue(_, _, _, _)
\* a plausible slip: continue for break, so later packages are still tried
PackageLoopContinue(packageInfos, i, estimated_encoded_size, stack) ==
    IF i > Len(packageInfos)
    THEN [rc |-> "NO_ERROR", est |-> estimated_encoded_size, stack |-> stack]
    ELSE IF NotPackageName(packageInfos[i].packageName)
    THEN [rc |-> "BAD_VALUE", est |-> estimated_encoded_size, stack |-> stack]
    ELSE LET package_name == c_str(String8(packageInfos[i].packageName))
             built == build_attestation_package_info(packageInfos[i])
             est == AddPackageEstimate(estimated_encoded_size, package_name)
         IN  IF OverBudget(est)
             THEN PackageLoopContinue(packageInfos, i + 1, estimated_encoded_size,
                                      stack)
             ELSE PackageLoopContinue(packageInfos, i + 1, est,
                                      Append(stack, built.info))

RECURSIVE PackageLoopForgetsDropped(_, _, _, _)
\* a plausible slip: the size of the package that did not fit is not kept
PackageLoopForgetsDropped(packageInfos, i, estimated_encoded_size, stack) ==
    IF i > Len(packageInfos)
    THEN [rc |-> "NO_ERROR", est |-> estimated_encoded_size, stack |-> stack]
    ELSE IF NotPackageName(packageInfos[i].packageName)
    THEN [rc |-> "BAD_VALUE", est |-> estimated_encoded_size, stack |-> stack]
    ELSE LET package_name == c_str(String8(packageInfos[i].packageName))
             built == build_attestation_package_info(packageInfos[i])
             est == AddPackageEstimate(estimated_encoded_size, package_name)
         IN  IF built.rc # "NO_ERROR"
             THEN [rc |-> built.rc, est |-> estimated_encoded_size, stack |-> stack]
             ELSE IF OverBudget(est)
             THEN [rc |-> "NO_ERROR", est |-> estimated_encoded_size, stack |-> stack]
             ELSE PackageLoopForgetsDropped(packageInfos, i + 1, est,
                                            Append(stack, built.info))

RECURSIVE PackageLoop(_, _, _, _)
\* for (pinfo = packageInfos.begin(); ...): state of the loop at element i;
\* yields the status, the estimate and the stack when the loop is left
PackageLoop(packageInfos, i, estimated_encoded_size, stack) ==
    IF i > Len(packageInfos)
    THEN [rc |-> "NO_ERROR", est |-> estimated_encoded_size, stack |-> stack]
    ELSE IF NotPackageName(packageInfos[i].packageName)
    THEN [rc |-> "BAD_VALUE", est |-> estimated_encoded_size, stack |-> stack]
    ELSE LET package_name == c_str(String8(packageInfos[i].packageName))
             built == build_attestation_package_info(packageInfos[i])
             est == AddPackageEstimate(estimated_encoded_size, package_name)
         IN  IF built.rc # "NO_ERROR"
             THEN [rc |-> built.rc, est |-> estimated_encoded_size, stack |-> stack]
             ELSE IF OverBudget(est)
             THEN [rc |-> "NO_ERROR", est |-> est, stack |-> stack]
             ELSE PackageLoop(packageInfos, i + 1, est, Append(stack, built.info))

\* a plausible slip: the digests of the last package's signatures
SignatureDigestsOfLast(key_attestation_id) ==
    LET pinfo == key_attestation_id.packageInfos[Len(key_attestation_id.packageInfos)]
    IN  [i \in 1..Len(pinfo.signatures) |-> signature2SHA256(pinfo.signatures[i])]

\* const auto& pinfo = *packageInfos.begin(); digests of all its signatures
SignatureDigests(key_attestation_id) ==
    LET pinfo == key_attestation_id.packageInfos[1]
    IN  [i \in 1..Len(pinfo.signatures) |-> signature2SHA256(pinfo.signatures[i])]

RECURSIVE DigestLoop(_, _, _, _)
\* for (auto si : signature_digests)
DigestLoop(signature_digests, i, estimated_encoded_size, stack) ==
    IF i > Len(signature_digests)
    THEN [est |-> estimated_encoded_size, stack |-> stack]
    ELSE LET est == estimated_encoded_size + AAID_SIGNATURE_SIZE
         IN  IF OverBudget(est)
             THEN [est |-> est, stack |-> stack]
             ELSE DigestLoop(signature_digests, i + 1, est,
                             Append(stack, signature_digests[i]))

\* KM_ATTESTATION_APPLICATION_ID_new(): both stacks empty
NoAttestationId == [package_infos |-> <<>>, signature_digests |-> <<>>]

\* a plausible slip: the empty list is encoded instead of rejected
EmptyPackagesEncoded ==
    [status |-> "NO_ERROR",
     value |-> i2d_KM_ATTESTATION_APPLICATION_ID(NoAttestationId),
     attestation_id |-> NoAttestationId,
     estimated_encoded_size |-> AAID_GENERAL_OVERHEAD]

\* if (packageInfos.begin() == packageInfos.end()) return BAD_VALUE;
EmptyPackagesResult ==
    [status |-> "BAD_VALUE", value |-> <<>>, attestation_id |-> NoAttestationId,
     estimated_encoded_size |-> AAID_GENERAL_OVERHEAD]

\* The StatusOr returned, together with the KM_ATTESTATION_APPLICATION_ID and
\* the estimate the function held when it returned.
build_attestation_application_id(key_attestation_id) ==
    IF NoPackageInfos(key_attestation_id)
    THEN EmptyPackagesResult
    ELSE LET pl == PackageLoop(key_attestation_id.packageInfos, 1,
                               AAID_GENERAL_OVERHEAD, <<>>)
         IN  IF pl.rc # "NO_ERROR"
             THEN [status |-> pl.rc, value |-> <<>>,
                   attestation_id |->
                       [package_infos |-> pl.stack, signature_digests |-> <<>>],
                   estimated_encoded_size |-> pl.est]
             ELSE LET dl == DigestLoop(SignatureDigests(key_attestation_id), 1,
                                       pl.est, <<>>)
                      aid == [package_infos |-> pl.stack,
                              signature_digests |-> dl.stack]
                  IN  [status |-> "NO_ERROR",
                       value |-> i2d_KM_ATTESTATION_APPLICATION_ID(aid),
                       attestation_id |-> aid,
                       estimated_encoded_size |-> dl.est]

\* ------------------------------------------------------------------------
\* State
\* ------------------------------------------------------------------------
VARIABLES
    encInput,            \* the KeyAttestationApplicationId given to the encoder
    encResult,           \* what build_attestation_application_id returned for it
    gServiceMu,          \* the thread holding the mutex, NoThread when free
    gService,            \* the shared handle, nullptr when empty
    handles,             \* number of provider objects made so far
    pc,                  \* per thread: where it is in gather
    uid,                 \* per thread: the argument of gather
    attempt,             \* per thread: the loop counter
    pm,                  \* per thread: the local copy of the handle
    status,              \* per thread: the binder status of the last RPC
    key_attestation_id,  \* per thread: the id gather assembled
    ret,                 \* per thread: what the last gather returned
    trace,               \* per thread: the steps of the current gather, in order
    calls                \* per thread: the gather calls started

encVars == <<encInput, encResult>>
gatherVars == <<gServiceMu, gService, handles, pc, uid, attempt, pm, status,
                key_attestation_id, ret, trace, calls>>
vars == <<encInput, encResult, gServiceMu, gService, handles, pc, uid, attempt,
          pm, status, key_attestation_id, ret, trace, calls>>

\* ------------------------------------------------------------------------
\* Inputs of the encoder
\* ------------------------------------------------------------------------
MaxPackages == 3
MaxSignatures == 2
MaxOtherSigned == 1

Version0 == <<0, 0, 0, 0, 0, 0, 0, 0>>
Version1 == <<0, 0, 0, 0, 0, 0, 0, 1>>
Version42 == <<0, 0, 0, 0, 0, 0, 0, 42>>
VersionMax == <<255, 255, 255, 255, 255, 255, 255, 255>>

PackageInfo(name, version, sigs) ==
    [packageName |-> name, versionCode |-> version, signatures |-> sigs]

PackageChoices ==
    { PackageInfo(ShortName, Version1, <<>>),
      PackageInfo(RepeatName(256, 100), Version42, <<>>),
      PackageInfo(RepeatName(321, 99), VersionMax, <<>>),
      PackageInfo(RepeatName(1000, 101), Version0, <<>>),
      PackageInfo(<<>>, Version1, <<>>) }

SignatureChoices == { <<48, 130, 1, 10>>, <<48, 3, 2, 1, 0>> }
OtherSignatureChoices == { <<>>, << <<48, 1, 7>>, <<48, 130, 1, 10>> >> }

NotCalled ==
    [status |-> "NOT_CALLED", value |-> <<>>, attestation_id |-> NoAttestationId,
     estimated_encoded_size |-> 0]

\* the StatusOr<std::vector<uint8_t>> a caller sees
StatusOr(r) == [status |-> r.status, value |-> r.value]

\* number of packages after the first that carry signatures
OtherSigned(packageInfos) ==
    Cardinality({i \in 2..Len(packageInfos) : packageInfos[i].signatures # <<>>})

\* ------------------------------------------------------------------------
\* The encoder applied to growing inputs
\* ------------------------------------------------------------------------
Encode ==
    /\ encResult = NotCalled
    /\ encResult' = build_attestation_application_id(encInput)
    /\ UNCHANGED encInput
    /\ UNCHANGED gatherVars

AppendPackage(p) ==
    /\ encResult # NotCalled
    /\ Len(encInput.packageInfos) < MaxPackages
    /\ encInput' = [packageInfos |-> Append(encInput.packageInfos, p)]
    /\ encResult' = build_attestation_application_id(encInput')
    /\ UNCHANGED gatherVars

AppendSignature(s) ==
    /\ encResult # NotCalled
    /\ encInput.packageInfos # <<>>
    /\ Len(encInput.packageInfos[1].signatures) < MaxSignatures
    /\ encInput' = [packageInfos |->
           [encInput.packageInfos EXCEPT ![1].signatures = Append(@, s)]]
    /\ encResult' = build_attestation_application_id(encInput')
    /\ UNCHANGED gatherVars

ReplaceOtherSignatures(i, sigs) ==
    /\ encResult # NotCalled
    /\ i \in 2..Len(encInput.packageInfos)
    /\ encInput.packageInfos[i].signatures # sigs
    /\ encInput' = [packageInfos |->
           [encInput.packageInfos EXCEPT ![i].signatures = sigs]]
    /\ OtherSigned(encInput'.packageInfos) <= MaxOtherSigned
    /\ encResult' = build_attestation_application_id(encInput')
    /\ UNCHANGED gatherVars

\* ------------------------------------------------------------------------
\* gather_attestation_application_id, get_service, reset_service
\* ------------------------------------------------------------------------
NumThreads == 2
MaxCalls == 1
Threads == 1..NumThreads
NoThread == 0
nullptr == 0

\* the uids drawn: the two system ones and an application's
UidChoices == {AID_ROOT, AID_SYSTEM, 10001}

\* binder::Status exception codes
StatusChoices ==
    {"EX_NONE", "EX_SERVICE_SPECIFIC", "EX_TRANSACTION_FAILED", "EX_ILLEGAL_STATE"}
isOk(st) == st = "EX_NONE"

\* what the provider may answer
ResponseChoices ==
    { [packageInfos |-> <<>>],
      [packageInfos |->
          << PackageInfo(ShortName, Version42,
                         << <<48, 130, 1, 10>>, <<48, 3, 2, 1, 0>> >>) >>] }

NoId == [packageInfos |-> <<>>]
NoReturn == [status |-> "NOT_CALLED", value |-> <<>>]

\* the fixed id of system callers
SystemId ==
    [packageInfos |->
        << PackageInfo(kAttestationSystemPackageName, Version1, <<>>) >>]

\* a plausible slip: only AID_SYSTEM takes the fixed id
IsPrivilegedSystemOnly(u) == u = AID_SYSTEM

\* uid == AID_SYSTEM || uid == AID_ROOT
IsPrivileged(u) == u = AID_SYSTEM \/ u = AID_ROOT

\* a plausible slip: the connection is never dropped
AfterFailureNoReset(st) == "usleep"

\* a plausible slip: the connection is dropped on every failure
AfterFailureAlwaysReset(st) == "reset_service"

\* a plausible slip: only a dropped connection is followed by the sleep
AfterFailureNoSleep(st) ==
    IF st = "EX_TRANSACTION_FAILED" THEN "reset_service" ELSE "get_service"

\* the branches on status.exceptionCode(): where a failed attempt goes next
AfterFailure(st) ==
    IF st = "EX_SERVICE_SPECIFIC" THEN "usleep"
    ELSE IF st = "EX_TRANSACTION_FAILED" THEN "reset_service"
    ELSE "usleep"

\* a plausible slip: <= for <
LoopTestOffByOne(a) == a <= kMaxAttempts

\* attempt < kMaxAttempts
LoopTest(a) == a < kMaxAttempts

\* what gather returns once the loop is left: the failure code unless the
\* last status is ok, else the encoding of the id
GatherResult(st, id) ==
    IF ~isOk(st)
    THEN [status |-> "GET_ATTESTATION_APPLICATION_ID_FAILED", value |-> <<>>]
    ELSE StatusOr(build_attestation_application_id(id))

\* the events gather's return adds to the trace
ReturnEvents(st) ==
    IF isOk(st) THEN << <<"encode", nullptr>> >> ELSE << <<"return_failed", nullptr>> >>

\* gather(uid) is entered.  A system caller touches no shared state: the
\* whole call is one step.  Any other caller proceeds to get_service.
GatherBegin(t, u) ==
    /\ pc[t] = "idle"
    /\ calls[t] < MaxCalls
    /\ calls' = [calls EXCEPT ![t] = @ + 1]
    /\ uid' = [uid EXCEPT ![t] = u]
    /\ attempt' = [attempt EXCEPT ![t] = 0]
    /\ status' = [status EXCEPT ![t] = "EX_NONE"]
    /\ pm' = [pm EXCEPT ![t] = nullptr]
    /\ IF IsPrivileged(u)
       THEN /\ key_attestation_id' = [key_attestation_id EXCEPT ![t] = SystemId]
            /\ ret' = [ret EXCEPT ![t] =
                         StatusOr(build_attestation_application_id(SystemId))]
            /\ trace' = [trace EXCEPT ![t] = << <<"encode", nullptr>> >>]
            /\ pc' = pc
       ELSE /\ key_attestation_id' = [key_attestation_id EXCEPT ![t] = NoId]
            /\ ret' = [ret EXCEPT ![t] = NoReturn]
            /\ trace' = [trace EXCEPT ![t] = <<>>]
            /\ pc' = [pc EXCEPT ![t] = "get_service"]
    /\ UNCHANGED <<gServiceMu, gService, handles>>
    /\ UNCHANGED encVars

\* a plausible slip: the lock is kept while the RPC is in flight
GetServiceCachedLocked(t) ==
    /\ pc[t] = "get_service"
    /\ gServiceMu = NoThread
    /\ gService # nullptr
    /\ gServiceMu' = t
    /\ pm' = [pm EXCEPT ![t] = gService]
    /\ pc' = [pc EXCEPT ![t] = "in_rpc"]
    /\ trace' = [trace EXCEPT ![t] =
                   @ \o << <<"get_service", gService>>, <<"rpc", gService>> >>]
    /\ UNCHANGED <<gService, handles, uid, attempt, status,
                   key_attestation_id, ret, calls>>
    /\ UNCHANGED encVars

\* get_service with the slot filled: lock, copy, unlock; the RPC is then
\* issued on the copy
GetServiceCached(t) ==
    /\ pc[t] = "get_service"
    /\ gServiceMu = NoThread
    /\ gService # nullptr
    /\ pm' = [pm EXCEPT ![t] = gService]
    /\ pc' = [pc EXCEPT ![t] = "in_rpc"]
    /\ trace' = [trace EXCEPT ![t] =
                   @ \o << <<"get_service", gService>>, <<"rpc", gService>> >>]
    /\ UNCHANGED <<gServiceMu, gService, handles, uid, attempt, status,
                   key_attestation_id, ret, calls>>
    /\ UNCHANGED encVars

\* a plausible slip: waitForService is entered without the lock
GetServiceWaitUnlocked(t) ==
    /\ pc[t] = "get_service"
    /\ gService = nullptr
    /\ pc' = [pc EXCEPT ![t] = "waitForService"]
    /\ trace' = [trace EXCEPT ![t] = Append(@, <<"waitForService", nullptr>>)]
    /\ UNCHANGED <<gServiceMu, gService, handles, uid, attempt, pm, status,
                   key_attestation_id, ret, calls>>
    /\ UNCHANGED encVars

\* get_service with the slot empty: lock and enter waitForService
GetServiceWait(t) ==
    /\ pc[t] = "get_service"
    /\ gServiceMu = NoThread
    /\ gService = nullptr
    /\ gServiceMu' = t
    /\ pc' = [pc EXCEPT ![t] = "waitForService"]
    /\ trace' = [trace EXCEPT ![t] = Append(@, <<"waitForService", nullptr>>)]
    /\ UNCHANGED <<gService, handles, uid, attempt, pm, status,
                   key_attestation_id, ret, calls>>
    /\ UNCHANGED encVars

\* a plausible slip: the mutex is not released when get_service returns
GetServiceReturnLocked(t) ==
    /\ pc[t] = "waitForService"
    /\ gServiceMu = t
    /\ handles' = handles + 1
    /\ gService' = handles + 1
    /\ pm' = [pm EXCEPT ![t] = handles + 1]
    /\ pc' = [pc EXCEPT ![t] = "in_rpc"]
    /\ trace' = [trace EXCEPT ![t] =
                   @ \o << <<"get_service", handles + 1>>, <<"rpc", handles + 1>> >>]
    /\ UNCHANGED <<gServiceMu, uid, attempt, status, key_attestation_id, ret, calls>>
    /\ UNCHANGED encVars

\* waitForService returns: store a new provider object, unlock, return it;
\* the RPC is then issued on the copy
GetServiceReturn(t) ==
    /\ pc[t] = "waitForService"
    /\ gServiceMu = t
    /\ handles' = handles + 1
    /\ gService' = handles + 1
    /\ gServiceMu' = NoThread
    /\ pm' = [pm EXCEPT ![t] = handles + 1]
    /\ pc' = [pc EXCEPT ![t] = "in_rpc"]
    /\ trace' = [trace EXCEPT ![t] =
                   @ \o << <<"get_service", handles + 1>>, <<"rpc", handles + 1>> >>]
    /\ UNCHANGED <<uid, attempt, status, key_attestation_id, ret, calls>>
    /\ UNCHANGED encVars

\* a plausible slip: the RPC runs on the shared slot, not on the local copy
RpcReturnOkOnShared(t, response) ==
    /\ pc[t] = "in_rpc"
    /\ status' = [status EXCEPT ![t] = "EX_NONE"]
    /\ key_attestation_id' = [key_attestation_id EXCEPT ![t] = response]
    /\ ret' = [ret EXCEPT ![t] = GatherResult("EX_NONE", response)]
    /\ pc' = [pc EXCEPT ![t] = "idle"]
    /\ trace' = [trace EXCEPT ![t] =
                   @ \o << <<"EX_NONE", gService>> >> \o ReturnEvents("EX_NONE")]
    /\ UNCHANGED <<gServiceMu, gService, handles, uid, attempt, pm, calls>>
    /\ UNCHANGED encVars

\* the RPC returns ok with an id: break, and gather returns
RpcReturnOk(t, response) ==
    /\ pc[t] = "in_rpc"
    /\ status' = [status EXCEPT ![t] = "EX_NONE"]
    /\ key_attestation_id' = [key_attestation_id EXCEPT ![t] = response]
    /\ ret' = [ret EXCEPT ![t] = GatherResult("EX_NONE", response)]
    /\ pc' = [pc EXCEPT ![t] = "idle"]
    /\ trace' = [trace EXCEPT ![t] =
                   @ \o << <<"EX_NONE", pm[t]>> >> \o ReturnEvents("EX_NONE")]
    /\ UNCHANGED <<gServiceMu, gService, handles, uid, attempt, pm, calls>>
    /\ UNCHANGED encVars

\* the RPC returns an exception; the code classifies it
RpcReturnFailure(t, st) ==
    /\ pc[t] = "in_rpc"
    /\ ~isOk(st)
    /\ status' = [status EXCEPT ![t] = st]
    /\ pc' = [pc EXCEPT ![t] = AfterFailure(st)]
    /\ trace' = [trace EXCEPT ![t] = Append(@, <<st, pm[t]>>)]
    /\ UNCHANGED <<gServiceMu, gService, handles, uid, attempt, pm,
                   key_attestation_id, ret, calls>>
    /\ UNCHANGED encVars

\* a plausible slip: the shared reference is kept
ResetServiceNoClear(t) ==
    /\ pc[t] = "reset_service"
    /\ gServiceMu = NoThread
    /\ pc' = [pc EXCEPT ![t] = "usleep"]
    /\ trace' = [trace EXCEPT ![t] = Append(@, <<"reset_service", gService>>)]
    /\ UNCHANGED <<gServiceMu, gService, handles, uid, attempt, pm, status,
                   key_attestation_id, ret, calls>>
    /\ UNCHANGED encVars

\* reset_service: lock, clear the slot, unlock
ResetService(t) ==
    /\ pc[t] = "reset_service"
    /\ gServiceMu = NoThread
    /\ gService' = nullptr
    /\ pc' = [pc EXCEPT ![t] = "usleep"]
    /\ trace' = [trace EXCEPT ![t] = Append(@, <<"reset_service", gService>>)]
    /\ UNCHANGED <<gServiceMu, handles, uid, attempt, pm, status,
                   key_attestation_id, ret, calls>>
    /\ UNCHANGED encVars

\* usleep returns; ++attempt and the loop test; when the loop ends here the
\* status is examined and gather returns
Usleep(t) ==
    /\ pc[t] = "usleep"
    /\ attempt' = [attempt EXCEPT ![t] = @ + 1]
    /\ IF LoopTest(attempt[t] + 1)
       THEN /\ pc' = [pc EXCEPT ![t] = "get_service"]
            /\ trace' = [trace EXCEPT ![t] = Append(@, <<"usleep", nullptr>>)]
            /\ UNCHANGED ret
       ELSE /\ pc' = [pc EXCEPT ![t] = "idle"]
            /\ trace' = [trace EXCEPT ![t] =
                           @ \o << <<"usleep", nullptr>> >> \o ReturnEvents(status[t])]
            /\ ret' = [ret EXCEPT ![t] =
                         GatherResult(status[t], key_attestation_id[t])]
    /\ UNCHANGED <<gServiceMu, gService, handles, uid, pm, status,
                   key_attestation_id, calls>>
    /\ UNCHANGED encVars

\* ------------------------------------------------------------------------
\* Specifications
\* ------------------------------------------------------------------------
InitGather ==
    /\ gServiceMu = NoThread
    /\ gService = nullptr
    /\ handles = 0
    /\ pc = [t \in Threads |-> "idle"]
    /\ uid = [t \in Threads |-> AID_ROOT]
    /\ attempt = [t \in Threads |-> 0]
    /\ pm = [t \in Threads |-> nullptr]
    /\ status = [t \in Threads |-> "EX_NONE"]
    /\ key_attestation_id = [t \in Threads |-> NoId]
    /\ ret = [t \in Threads |-> NoReturn]
    /\ trace = [t \in Threads |-> <<>>]
    /\ calls = [t \in Threads |-> 0]

InitEncode ==
    /\ encInput = [packageInfos |-> <<>>]
    /\ encResult = NotCalled

Init == InitGather /\ InitEncode

\* the gatherer, with threads interleaved at the mutex, the RPC and the sleep
Next ==
    \/ \E t \in Threads, u \in UidChoices : GatherBegin(t, u)
    \/ \E t \in Threads : GetServiceCached(t)
    \/ \E t \in Threads : GetServiceWait(t)
    \/ \E t \in Threads : GetServiceReturn(t)
    \/ \E t \in Threads, r \in ResponseChoices : RpcReturnOk(t, r)
    \/ \E t \in Threads, st \in StatusChoices : RpcReturnFailure(t, st)
    \/ \E t \in Threads : ResetService(t)
    \/ \E t \in Threads : Usleep(t)

Spec == Init /\ [][Next]_vars

\* the encoder alone
NextEncode ==
    \/ Encode
    \/ \E p \in PackageChoices : AppendPackage(p)
    \/ \E s \in SignatureChoices : AppendSignature(s)
    \/ \E i \in 2..MaxPackages, sigs \in OtherSignatureChoices :
           ReplaceOtherSignatures(i, sigs)

SpecEncode == Init /\ [][NextEncode]_vars

\* ------------------------------------------------------------------------
\* Vocabulary of the encoder's properties
\* ------------------------------------------------------------------------
\* the byte length of a package's name as it is encoded
NameLen(p) == Len(c_str(String8(p.packageName)))

\* a non-empty package list (every package name is a String16)
ValidInput(id) == id.packageInfos # <<>>

RECURSIVE PrefixEstimate(_, _)
\* 16 + the sum over i <= k of (15 + len(name_i))
PrefixEstimate(packageInfos, k) ==
    IF k = 0 THEN 16
    ELSE PrefixEstimate(packageInfos, k - 1) + 15 + NameLen(packageInfos[k])

\* the length of the longest prefix whose estimate is within 1024
FittingPrefix(packageInfos) ==
    CHOOSE k \in 0..Len(packageInfos) :
        /\ PrefixEstimate(packageInfos, k) <= 1024
        /\ \A j \in (k + 1)..Len(packageInfos) :
               PrefixEstimate(packageInfos, j) > 1024

\* the largest m <= n with e + 34 * m <= 1024
FittingDigests(e, n) ==
    CHOOSE m \in 0..n :
        /\ e + 34 * m <= 1024
        /\ \A j \in (m + 1)..n : e + 34 * j > 1024

Encoded == encResult.status = "NO_ERROR"
IncludedPackages(r) == Len(r.attestation_id.package_infos)
IncludedDigests(r) == Len(r.attestation_id.signature_digests)

\* C1: for every input with a non-empty package list in which every package
\* has a name, the real DER length of the output is at most 1024.
C1_BoundedOutput ==
    (ValidInput(encInput) /\ Encoded) => Len(encResult.value) <= 1024

\* C6: for a valid input the call succeeds and the included packages are
\* exactly the longest prefix packages[0..k) with
\* 16 + sum over i < k of (15 + len(name_i)) <= 1024, in input order; for 100
\* packages with 200-byte names, k = 4.
Scenario4Input ==
    [packageInfos |->
        [i \in 1..100 |-> PackageInfo(RepeatName(200, 98), Version42, <<>>)]]

C6_PackagePrefix ==
    /\ (ValidInput(encInput) /\ encResult # NotCalled) =>
          /\ Encoded
          /\ encResult.attestation_id.package_infos =
                 [i \in 1..FittingPrefix(encInput.packageInfos) |->
                     build_attestation_package_info(encInput.packageInfos[i]).info]
    /\ LET r == build_attestation_application_id(Scenario4Input)
       IN  r.status = "NO_ERROR" /\ IncludedPackages(r) = 4

\* a package was dropped, and one exactly filled the budget
C6_Witness ==
    /\ ValidInput(encInput)
    /\ Encoded
    /\ IncludedPackages(encResult) = 2
    /\ Len(encInput.packageInfos) = 3
    /\ PrefixEstimate(encInput.packageInfos, 2) < 1024

\* C7: the digests included are sha256 of the longest prefix of
\* packages[0].signatures that fits the budget left after the included
\* packages: with E the estimate of the included packages, their number is
\* the largest m <= len(packages[0].signatures) with E + 34 * m <= 1024, also
\* when some packages were dropped.
C7_DigestPrefix ==
    (ValidInput(encInput) /\ Encoded) =>
        LET sigs == encInput.packageInfos[1].signatures
            E == PrefixEstimate(encInput.packageInfos, IncludedPackages(encResult))
        IN  encResult.attestation_id.signature_digests =
                [i \in 1..FittingDigests(E, Len(sigs)) |-> signature2SHA256(sigs[i])]

\* C9: on an empty package list encode returns BAD_VALUE and no bytes; every
\* successful encode returns at least one byte.
C9_EmptyRejected ==
    /\ (encInput.packageInfos = <<>> /\ encResult # NotCalled) =>
           (encResult.status = "BAD_VALUE" /\ encResult.value = <<>>)
    /\ Encoded => Len(encResult.value) >= 1

C9_Witness ==
    encInput.packageInfos = <<>> /\ encResult.status = "BAD_VALUE"

\* x2 is x1 with one more package at the end
IsAppendPackage(x1, x2) ==
    /\ Len(x2.packageInfos) = Len(x1.packageInfos) + 1
    /\ SubSeq(x2.packageInfos, 1, Len(x1.packageInfos)) = x1.packageInfos

\* x2 is x1 with one more signature at the end of packages[0].signatures
IsAppendSignature(x1, x2) ==
    /\ x1.packageInfos # <<>>
    /\ Len(x2.packageInfos) = Len(x1.packageInfos)
    /\ Len(x2.packageInfos[1].signatures) = Len(x1.packageInfos[1].signatures) + 1
    /\ x1.packageInfos =
           [x2.packageInfos EXCEPT ![1].signatures =
               SubSeq(@, 1, Len(x1.packageInfos[1].signatures))]

PackagesTruncated(x, r) == IncludedPackages(r) < Len(x.packageInfos)
DigestsTruncated(x, r) == IncludedDigests(r) < Len(x.packageInfos[1].signatures)
Truncated(x, r) == PackagesTruncated(x, r) \/ DigestsTruncated(x, r)

\* a step from a valid input to a valid input with one more package or signature
Grows ==
    /\ ValidInput(encInput) /\ ValidInput(encInput')
    /\ encResult.status = "NO_ERROR" /\ encResult'.status = "NO_ERROR"
    /\ IsAppendPackage(encInput, encInput') \/ IsAppendSignature(encInput, encInput')

\* C8 as stated: appending a package or a signature decreases neither the
\* number of included packages nor the number of included digests nor the
\* output size, and leaves the output of an already truncated input unchanged.
C8_Monotone ==
    [][Grows =>
          /\ IncludedPackages(encResult') >= IncludedPackages(encResult)
          /\ IncludedDigests(encResult') >= IncludedDigests(encResult)
          /\ Len(encResult'.value) >= Len(encResult.value)
          /\ Truncated(encInput, encResult) => encResult'.value = encResult.value
      ]_vars

\* C8 amended: appending a signature decreases neither count nor the output
\* size; appending a package does not decrease the number of included
\* packages; the output stays the same when a package had already been
\* dropped, and when a digest had already been dropped and a signature is
\* appended.
C8_MonotoneAmended ==
    [][Grows =>
          /\ IncludedPackages(encResult') >= IncludedPackages(encResult)
          /\ IsAppendSignature(encInput, encInput') =>
                /\ IncludedDigests(encResult') >= IncludedDigests(encResult)
                /\ Len(encResult'.value) >= Len(encResult.value)
          /\ (\/ PackagesTruncated(encInput, encResult)
              \/ /\ DigestsTruncated(encInput, encResult)
                 /\ IsAppendSignature(encInput, encInput'))
             => encResult'.value = encResult.value
      ]_vars

\* an input that lost a package and one whose second signature did not fit
C8_Witness ==
    /\ ValidInput(encInput)
    /\ Encoded
    /\ Len(encInput.packageInfos[1].signatures) = 2
    /\ \/ PackagesTruncated(encInput, encResult)
       \/ IncludedDigests(encResult) = 1

\* x2 differs from x1 only in the signatures of packages after the first
OnlyOtherSignaturesDiffer(x1, x2) ==
    /\ x1 # x2
    /\ x1.packageInfos # <<>>
    /\ Len(x2.packageInfos) = Len(x1.packageInfos)
    /\ x2.packageInfos[1] = x1.packageInfos[1]
    /\ \A i \in 2..Len(x1.packageInfos) :
           /\ x2.packageInfos[i].packageName = x1.packageInfos[i].packageName
           /\ x2.packageInfos[i].versionCode = x1.packageInfos[i].versionCode

\* C10: two inputs that agree on every name and version and on
\* packages[0].signatures, and differ only in the signatures of later
\* packages, give the same result.
C10_OnlyFirstSignatures ==
    [][(OnlyOtherSignaturesDiffer(encInput, encInput') /\ encResult # NotCalled)
          => StatusOr(encResult') = StatusOr(encResult)]_vars

\* a later package carries signatures the first one lacks, and digests came out
C10_Witness ==
    /\ Encoded
    /\ IncludedPackages(encResult) >= 2
    /\ IncludedDigests(encResult) >= 1
    /\ \E i \in 2..Len(encInput.packageInfos) :
           /\ encInput.packageInfos[i].signatures # <<>>
           /\ encInput.packageInfos[i].signatures # encInput.packageInfos[1].signatures

\* ------------------------------------------------------------------------
\* Vocabulary of the gatherer's properties
\* ------------------------------------------------------------------------
\* the positions of the events of one kind in a thread's trace
Positions(t, kind) == {i \in DOMAIN trace[t] : trace[t][i][1] = kind}
Count(t, kind) == Cardinality(Positions(t, kind))

IsResult(e) == e[1] \in StatusChoices
\* the RPC results of the current gather, in order
Results(t) ==
    LET rs == SelectSeq(trace[t], IsResult) IN [i \in DOMAIN rs |-> rs[i][1]]

Returned(t) == calls[t] > 0 /\ pc[t] = "idle"

\* uid = SYSTEM (1000) or uid = ROOT (0)
SystemOrRoot(u) == u = 1000 \/ u = 0
Failures == StatusChoices \ {"EX_NONE"}

\* C2: for a non-privileged uid, when the first lookup returns
\* TransactionFailed and the second Ok, gather returns the encoding of the
\* second response, makes exactly two RPC calls and calls reset_service
\* exactly once, after the first RPC and before the second.
C2_RetryAfterTransactionFailed ==
    \A t \in Threads :
        (~SystemOrRoot(uid[t]) /\ Results(t) = <<"EX_TRANSACTION_FAILED", "EX_NONE">>)
        => /\ Count(t, "rpc") = 2
           /\ Count(t, "reset_service") = 1
           /\ \A r \in Positions(t, "reset_service") :
                  /\ \E i \in Positions(t, "rpc") : i < r
                  /\ \E i \in Positions(t, "rpc") : r < i
           /\ Returned(t)
           /\ key_attestation_id[t] \in ResponseChoices
           /\ ret[t] = StatusOr(build_attestation_application_id(
                                    key_attestation_id[t]))

C2_Witness ==
    \E t \in Threads :
        /\ ~SystemOrRoot(uid[t])
        /\ Results(t) = <<"EX_TRANSACTION_FAILED", "EX_NONE">>
        /\ Returned(t)
        /\ ret[t].status = "NO_ERROR"

\* C3: for a non-privileged uid, after three non-Ok results of any kind
\* gather has made exactly three RPC attempts, makes no further one, never
\* runs the encoder and returns GET_ATTESTATION_APPLICATION_ID_FAILED.
C3_RetryExhausted ==
    \A t \in Threads :
        (/\ ~SystemOrRoot(uid[t])
         /\ Len(Results(t)) >= 3
         /\ \A i \in 1..3 : Results(t)[i] \in Failures)
        => /\ Len(Results(t)) = 3
           /\ Count(t, "rpc") = 3
           /\ Count(t, "encode") = 0
           /\ pc[t] \in {"reset_service", "usleep", "idle"}
           /\ Returned(t) =>
                  ret[t] = [status |-> "GET_ATTESTATION_APPLICATION_ID_FAILED",
                            value |-> <<>>]

C3_Witness ==
    \E t \in Threads :
        /\ Results(t) = <<"EX_ILLEGAL_STATE", "EX_TRANSACTION_FAILED",
                          "EX_SERVICE_SPECIFIC">>
        /\ Returned(t)
        /\ ret[t].status = "GET_ATTESTATION_APPLICATION_ID_FAILED"

\* C4: gather with uid SYSTEM or ROOT never calls get_service, never issues
\* an RPC, never resets the handle and never sleeps, whatever the other
\* threads do and whatever the shared handle holds; its result is the
\* encoding of the single package {"AndroidSystem", 1, no signatures}.
AndroidSystemId ==
    [packageInfos |->
        << PackageInfo(
               <<65, 110, 100, 114, 111, 105, 100, 83, 121, 115, 116, 101, 109>>,
               <<0, 0, 0, 0, 0, 0, 0, 1>>, <<>>) >>]

C4_SystemShortCircuit ==
    \A t \in Threads :
        (SystemOrRoot(uid[t]) /\ calls[t] > 0)
        => /\ pc[t] = "idle"
           /\ gServiceMu # t
           /\ \A kind \in {"get_service", "waitForService", "rpc", "reset_service",
                           "usleep"} \cup StatusChoices : Count(t, kind) = 0
           /\ ret[t] = StatusOr(build_attestation_application_id(AndroidSystemId))
           /\ ret[t].status = "NO_ERROR"

\* a system caller returned while another thread held the mutex in
\* waitForService, and one returned while the slot was filled
C4_Witness ==
    \E t \in Threads, o \in Threads :
        /\ uid[t] = 0 /\ calls[t] > 0 /\ ret[t].status = "NO_ERROR"
        /\ o # t
        /\ gServiceMu = o
        /\ pc[o] = "waitForService"

\* C5: a result of Ok, ServiceSpecific or Other is never followed by a reset:
\* every reset_service of a gather call comes directly after an RPC of its
\* own that returned TransactionFailed, so a gather that sees three
\* ServiceSpecific results performs no reset.
C5_ResetOnlyAfterTransactionFailed ==
    \A t \in Threads :
        /\ \A r \in Positions(t, "reset_service") :
               r > 1 /\ trace[t][r - 1][1] = "EX_TRANSACTION_FAILED"
        /\ pc[t] = "reset_service" =>
               /\ status[t] = "EX_TRANSACTION_FAILED"
               /\ trace[t][Len(trace[t])][1] = "EX_TRANSACTION_FAILED"
        /\ Count(t, "reset_service") <= Count(t, "EX_TRANSACTION_FAILED")
        /\ Results(t) = <<"EX_SERVICE_SPECIFIC", "EX_SERVICE_SPECIFIC",
                          "EX_SERVICE_SPECIFIC">>
               => Count(t, "reset_service") = 0

\* three ServiceSpecific results, no reset, and the slot still filled
C5_Witness ==
    \E t \in Threads :
        /\ Results(t) = <<"EX_SERVICE_SPECIFIC", "EX_SERVICE_SPECIFIC",
                          "EX_SERVICE_SPECIFIC">>
        /\ Returned(t)
        /\ Count(t, "reset_service") = 0
        /\ gService # nullptr
        /\ gService = pm[t]

\* ------------------------------------------------------------------------
\* Progress of the gatherer
\* ------------------------------------------------------------------------
\* the steps of thread t that take the mutex: lock_guard in get_service and
\* in reset_service
LockStep(t) == GetServiceCached(t) \/ GetServiceWait(t) \/ ResetService(t)

\* the RPC of thread t returns, with any result
RpcReturn(t) ==
    \/ \E r \in ResponseChoices : RpcReturnOk(t, r)
    \/ \E st \in StatusChoices : RpcReturnFailure(t, st)

\* a thread that waits for the mutex gets it if it is free again and again;
\* usleep ends
Scheduled(t) == SF_vars(LockStep(t)) /\ WF_vars(Usleep(t))

\* every waitForService and every RPC returns, and threads are scheduled
SpecFair ==
    /\ Spec
    /\ \A t \in Threads :
           Scheduled(t) /\ WF_vars(GetServiceReturn(t)) /\ WF_vars(RpcReturn(t))

\* the thread whose RPC may stay in flight for ever
StuckThread == 1

\* as SpecFair, but nothing makes the RPC of StuckThread return
SpecStuck ==
    /\ Spec
    /\ \A t \in Threads :
           /\ Scheduled(t)
           /\ WF_vars(GetServiceReturn(t))
           /\ t # StuckThread => WF_vars(RpcReturn(t))

\* the mutex is held by a thread exactly while it is in waitForService
MutexHeldOnlyInDiscovery ==
    \A t \in Threads : gServiceMu = t <=> pc[t] = "waitForService"

\* C11: no thread holds the mutex while its RPC is in flight or while it
\* sleeps; when the RPC of one thread never returns, a gather on any other
\* thread still takes the mutex, issues its own RPC and returns.
C11_RpcOutsideMutex ==
    /\ [](\A t \in Threads : pc[t] \in {"in_rpc", "usleep"} => gServiceMu # t)
    /\ []MutexHeldOnlyInDiscovery
    /\ \A t \in Threads \ {StuckThread} : (pc[t] # "idle") ~> (pc[t] = "idle")

\* the RPC of StuckThread is in flight while another thread has returned an encoding obtained through its own RPC
C11_Witness ==
    \E t \in Threads \ {StuckThread} :
        /\ pc[StuckThread] = "in_rpc"
        /\ Returned(t)
        /\ Count(t, "rpc") >= 1
        /\ ret[t].status = "NO_ERROR"
        /\ gServiceMu = NoThread

\* C12: every RPC of a thread is issued on the non-empty handle its directly
\* preceding get_service returned, and runs on that handle until it returns,
\* whatever happens to the shared slot meanwhile.
C12_RpcOnOwnHandle ==
    \A t \in Threads :
        /\ \A i \in Positions(t, "rpc") :
               /\ i > 1
               /\ trace[t][i - 1][1] = "get_service"
               /\ trace[t][i - 1][2] = trace[t][i][2]
               /\ trace[t][i][2] # nullptr
        /\ \A i \in DOMAIN trace[t] :
               IsResult(trace[t][i]) =>
                   /\ i > 1
                   /\ trace[t][i - 1][1] = "rpc"
                   /\ trace[t][i - 1][2] = trace[t][i][2]
        /\ pc[t] = "in_rpc" =>
               /\ pm[t] # nullptr
               /\ trace[t][Len(trace[t])] = <<"rpc", pm[t]>>

\* an RPC returned ok on a handle that another thread had reset meanwhile,
\* the slot holding a newer handle by then
C12_Witness ==
    \E t \in Threads :
        /\ Returned(t)
        /\ ret[t].status = "NO_ERROR"
        /\ Count(t, "rpc") = 1
        /\ \E i \in Positions(t, "EX_NONE") : trace[t][i][2] = pm[t]
        /\ gService # nullptr
        /\ gService # pm[t]

\* the kinds of step that may directly follow a step of one kind in a call
AllowedNext(kind) ==
    CASE kind = "waitForService" -> {"get_service"}
      [] kind = "get_service" -> {"rpc"}
      [] kind = "rpc" -> StatusChoices
      [] kind = "EX_NONE" -> {"encode"}
      [] kind = "EX_TRANSACTION_FAILED" -> {"reset_service"}
      [] kind \in {"EX_SERVICE_SPECIFIC", "EX_ILLEGAL_STATE"} -> {"usleep"}
      [] kind = "reset_service" -> {"usleep"}
      [] kind = "usleep" -> {"waitForService", "get_service", "return_failed"}
      [] OTHER -> {}

\* C14: within one non-privileged gather call the steps come in the order
\* get_service, RPC, (reset_service after TransactionFailed), sleep, next
\* get_service: each non-Ok result is followed by exactly one sleep before
\* the call's next RPC or its return, a reset comes before that sleep, and
\* the encoder runs only directly after an Ok result.
C14_StepOrder ==
    \A t \in Threads :
        (~SystemOrRoot(uid[t]) /\ calls[t] > 0) =>
            /\ trace[t] # <<>> => trace[t][1][1] \in {"waitForService", "get_service"}
            /\ \A i \in 1..(Len(trace[t]) - 1) :
                   trace[t][i + 1][1] \in AllowedNext(trace[t][i][1])
            /\ \A i \in DOMAIN trace[t] :
                   (trace[t][i][1] \in Failures /\ (pc[t] = "idle" \/
                       \E j \in Positions(t, "rpc") : j > i))
                   => Cardinality({k \in Positions(t, "usleep") :
                          /\ k > i
                          /\ \A j \in Positions(t, "rpc") : j > i => k < j}) = 1
            /\ \A r \in Positions(t, "reset_service") :
                   /\ r > 1 /\ trace[t][r - 1][1] \in Failures
                   /\ r < Len(trace[t]) => trace[t][r + 1][1] = "usleep"
            /\ Count(t, "encode") = Count(t, "EX_NONE")
            /\ pc[t] = "idle" =>
                   trace[t][Len(trace[t])][1] \in {"encode", "return_failed"}

\* a call that went through a reset and a plain retry before its Ok result
C14_Witness ==
    \E t \in Threads :
        /\ Results(t) = <<"EX_TRANSACTION_FAILED", "EX_SERVICE_SPECIFIC", "EX_NONE">>
        /\ Returned(t)
        /\ Count(t, "usleep") = 2
        /\ Count(t, "reset_service") = 1
        /\ Count(t, "encode") = 1

\* C15: whenever a reset_service clears the slot, the handle it removes is
\* the handle on which the resetting thread's RPC returned TransactionFailed;
\* a handle created after that failure is never dropped.
C15_ResetDropsFailedHandle ==
    \A t \in Threads :
        \A r \in Positions(t, "reset_service") :
            trace[t][r][2] # nullptr =>
                /\ r > 1
                /\ trace[t][r - 1][1] = "EX_TRANSACTION_FAILED"
                /\ trace[t][r][2] = trace[t][r - 1][2]

\* thread t leaves reset_service in this step
ResetStep(t) == pc[t] = "reset_service" /\ pc'[t] = "usleep"

\* thread t's get_service returns in this step
GetServiceStep(t) == pc[t] \in {"get_service", "waitForService"} /\ pc'[t] = "in_rpc"

\* C16: after an RPC of a gather call on handle h returned TransactionFailed,
\* the call issues no further RPC on h: its reset leaves the slot empty, a
\* handle enters an empty slot only as a newly discovered one, and the call's
\* next get_service returns what the slot then holds, a handle newer than h.
C16_NoReuseAfterTransactionFailed ==
    /\ [](\A t \in Threads :
             \A i \in Positions(t, "EX_TRANSACTION_FAILED") :
                 \A j \in Positions(t, "rpc") :
                     j > i => /\ trace[t][j][2] # trace[t][i][2]
                              /\ trace[t][j][2] > trace[t][i][2]
                              /\ trace[t][j][2] > trace[t][i + 1][2])
    /\ [][\A t \in Threads :
             /\ ResetStep(t) => gService' = nullptr
             /\ (gService = nullptr /\ gService' # nullptr) =>
                    (handles' = handles + 1 /\ gService' = handles')
             /\ GetServiceStep(t) =>
                    (pm'[t] = gService' /\ pm'[t] # nullptr /\
                     trace'[t][Len(trace'[t])] = <<"rpc", pm'[t]>>)
         ]_vars

\* a call whose first RPC failed on one handle and whose second succeeded on
\* a newer one that another thread had discovered after the reset
C16_Witness ==
    \E t \in Threads :
        /\ Results(t) = <<"EX_TRANSACTION_FAILED", "EX_NONE">>
        /\ Returned(t)
        /\ Count(t, "waitForService") = 0
        /\ Count(t, "reset_service") = 1
        /\ \E i, j \in Positions(t, "rpc") : trace[t][i][2] < trace[t][j][2]

\* a gather of thread o other than t, not of a system caller, is under way
OtherGatherUnderWay(t, o) ==
    o # t /\ ~SystemOrRoot(uid[o]) /\ pc[o] # "idle"

\* C17 as stated: when every waitForService and every RPC returns and
\* threads are scheduled fairly on the mutex, every gather call returns; it
\* makes at most 3 RPC attempts and none after its first Ok result.  While a
\* thread stays inside waitForService it holds the mutex, and every other
\* non-privileged gather blocks as well: none of them returns.
C17_GatherReturns ==
    /\ \A t \in Threads : (pc[t] # "idle") ~> (pc[t] = "idle")
    /\ [](\A t \in Threads :
             /\ Count(t, "rpc") <= 3
             /\ \A i \in Positions(t, "EX_NONE") :
                    \A j \in Positions(t, "rpc") : j < i
             /\ pc[t] = "waitForService" => gServiceMu = t)
    /\ [][\A t \in Threads, o \in Threads :
             (/\ pc[t] = "waitForService" /\ pc'[t] = "waitForService"
              /\ OtherGatherUnderWay(t, o))
             => pc'[o] # "idle"]_vars

\* C17 amended: as above up to the mutex being held; while a thread stays
\* inside waitForService, only the return of its waitForService releases the
\* mutex, no other thread gets past the lock of get_service or
\* reset_service, and another gather returns only from an RPC already in
\* flight or from the sleep after it, which need no mutex.
C17_GatherReturnsAmended ==
    /\ \A t \in Threads : (pc[t] # "idle") ~> (pc[t] = "idle")
    /\ [](\A t \in Threads :
             /\ Count(t, "rpc") <= 3
             /\ \A i \in Positions(t, "EX_NONE") :
                    \A j \in Positions(t, "rpc") : j < i
             /\ pc[t] = "waitForService" =>
                    /\ gServiceMu = t
                    /\ \A o \in Threads \ {t} : ~ENABLED LockStep(o))
    /\ [][\A t \in Threads :
             /\ (gServiceMu = t /\ gServiceMu' # t) =>
                    (pc[t] = "waitForService" /\ pc'[t] = "in_rpc")
             /\ \A o \in Threads :
                    (/\ pc[t] = "waitForService" /\ pc'[t] = "waitForService"
                     /\ OtherGatherUnderWay(t, o))
                    => /\ pc[o] \in {"get_service", "reset_service"} =>
                              (pc'[o] = pc[o] /\ trace'[o] = trace[o])
                       /\ pc'[o] = "idle" => pc[o] \in {"in_rpc", "usleep"}
         ]_vars

\* one thread is inside waitForService and holds the mutex; the other, whose
\* RPC returned TransactionFailed meanwhile, waits at the lock of
\* reset_service
C17_Witness ==
    \E t \in Threads, o \in Threads :
        /\ o # t
        /\ pc[t] = "waitForService"
        /\ gServiceMu = t
        /\ pc[o] = "reset_service"
        /\ ~ENABLED LockStep(o)

\* the handles thread t's get_service calls returned in the current gather
Obtained(t) == {trace[t][i][2] : i \in Positions(t, "get_service")}

\* the handles some reset_service removed from the slot
Removed ==
    UNION {{trace[t][i][2] : i \in Positions(t, "reset_service")} : t \in Threads}

\* C18: discovery is performed only by a thread that holds the mutex and
\* found the slot empty, so at most one discovery is in progress at a time;
\* get_service never overwrites a non-empty slot: a handle enters the slot
\* only when a discovery returns into the empty slot and leaves it only by a
\* reset, and every get_service returns what the slot holds, so all
\* get_service calls that complete between two resets return one handle.
C18_SingleDiscovery ==
    /\ [](/\ Cardinality({t \in Threads : pc[t] = "waitForService"}) <= 1
          /\ \A t \in Threads :
                 pc[t] = "waitForService" => (gServiceMu = t /\ gService = nullptr))
    /\ [][/\ gService # nullptr => gService' \in {gService, nullptr}
          /\ (gService # nullptr /\ gService' = nullptr) =>
                 \E t \in Threads : ResetStep(t)
          /\ (gService = nullptr /\ gService' # nullptr) =>
                 \E t \in Threads : GetServiceStep(t) /\ pc[t] = "waitForService"
          /\ \A t \in Threads :
                 GetServiceStep(t) =>
                     /\ pm'[t] = gService'
                     /\ gService # nullptr => pm'[t] = gService
                     /\ gService = nullptr => pc[t] = "waitForService"
         ]_vars

\* after a reset one thread is inside waitForService while the other waits
\* at get_service; before the reset both had obtained the same handle
C18_Witness ==
    \E t \in Threads, o \in Threads :
        /\ o # t
        /\ pc[t] = "waitForService"
        /\ pc[o] = "get_service"
        /\ Obtained(t) # {}
        /\ Obtained(t) = Obtained(o)
        /\ Obtained(t) \subseteq Removed

\* 16 + 15 + len(packages[0].name) <= 1024
FirstFits(x) == 16 + 15 + NameLen(x.packageInfos[1]) <= 1024

\* one package whose name makes the estimate exactly 1024, and one byte more
ExactFitInput ==
    [packageInfos |->
        << PackageInfo(RepeatName(993, 102), Version1,
                       << <<48, 3, 2, 1, 0>> >>) >>]
JustOverInput ==
    [packageInfos |->
        << PackageInfo(RepeatName(994, 103), Version1,
                       << <<48, 3, 2, 1, 0>> >>) >>]

\* C19: for a non-empty input, encode succeeds and includes packages[0] if
\* and only if 16 + 15 + len(packages[0].name) <= 1024; when the first
\* package does not fit, the output holds an empty package set and an empty
\* digest set, whatever packages[0].signatures and the later packages hold.
C19_FirstPackage ==
    /\ (encResult # NotCalled /\ encInput.packageInfos # <<>>)
       => /\ Encoded
          /\ (/\ IncludedPackages(encResult) >= 1
              /\ encResult.attestation_id.package_infos[1] =
                     build_attestation_package_info(encInput.packageInfos[1]).info)
             <=> FirstFits(encInput)
          /\ ~FirstFits(encInput) =>
                 /\ encResult.attestation_id = NoAttestationId
                 /\ encResult.value = <<48, 4, 49, 0, 49, 0>>
    /\ LET r == build_attestation_application_id(ExactFitInput)
       IN  r.status = "NO_ERROR" /\ IncludedPackages(r) = 1
    /\ LET r == build_attestation_application_id(JustOverInput)
       IN  r.status = "NO_ERROR" /\ r.value = <<48, 4, 49, 0, 49, 0>>

\* a first package with a 1000-byte name and two signatures, followed by
\* another package: nothing but the two empty sets is encoded
C19_Witness ==
    /\ Len(encInput.packageInfos) >= 2
    /\ NameLen(encInput.packageInfos[1]) = 1000
    /\ Len(encInput.packageInfos[1].signatures) = 2
    /\ Encoded
    /\ encResult.value = <<48, 4, 49, 0, 49, 0>>

====
